---- MODULE Spec2Model ----
(***************************************************************************)
(* Model of sage/manifolds/subsets/pullback.py: ManifoldSubsetPullback,    *)
(* the subset of a manifold defined as the pullback of a subset under a    *)
(* continuous map.  The collaborators (maps, codomain subsets, the base    *)
(* class ManifoldSubset) are modelled by the answers they give.            *)
(***************************************************************************)
EXTENDS Integers, Sequences, FiniteSets, TLC

VARIABLES maps, objs, supersets, last

vars == <<maps, objs, supersets, last>>

(***************************************************************************)
(* Bounds of the model.                                                    *)
(***************************************************************************)
\* number of calls of the public constructor made by the caller
MaxCtor == 1
\* number of pullback subsets alive (constructor calls plus closures)
MaxObjs == 2

(***************************************************************************)
(* Python values.  A str is a sequence of tokens; an optional str is a     *)
(* record that is either None or carries a str.                            *)
(***************************************************************************)
None == [isNone |-> TRUE, str |-> <<>>]

Str(s) == [isNone |-> FALSE, str |-> s]

\* Python truthiness of an optional str: None and '' are falsy
Truthy(x) == (~x.isNone) /\ x.str # <<>>

\* Python's `x or d` on an optional str x and a str d
OrElse(x, d) == IF Truthy(x) THEN x.str ELSE d

\* the reference None where an object reference is expected
NoRef == 0

(***************************************************************************)
(* Codomain subsets the caller can hand in.  Each one is described by what *)
(* it answers: whether it is a RealSet, what is_closed() returns or        *)
(* raises, whether closure() exists and what it returns or raises, which   *)
(* of _name/_latex_name it has, its repr and latex, and which values of    *)
(* the map it contains.                                                    *)
(***************************************************************************)
Values == 0 .. 3

Target(isReal, closed, closedErr, hasClosure, closureErr, cl, hasName, hasLatex, nm, ltx, rp, lrp, mem) ==
    [isReal |-> isReal, closed |-> closed, closedErr |-> closedErr,
     hasClosure |-> hasClosure, closureErr |-> closureErr, closure |-> cl,
     hasName |-> hasName, hasLatexName |-> hasLatex,
     name |-> nm, latex_name |-> ltx, repr |-> rp, latex |-> lrp,
     members |-> mem]

Targets ==
    << \* 1: RealSet((1, +oo)), open and not closed
       Target(TRUE, FALSE, "none", TRUE, "none", 2, FALSE, FALSE,
              <<>>, <<>>, <<"(1, +oo)">>, <<"(1, +\\infty)">>, {2, 3}),
       \* 2: RealSet([1, +oo)), closed
       Target(TRUE, TRUE, "none", TRUE, "none", 2, FALSE, FALSE,
              <<>>, <<>>, <<"[1, +oo)">>, <<"[1, +\\infty)">>, {1, 2, 3}),
       \* 3: manifold subset S, not known to be closed
       Target(FALSE, FALSE, "none", TRUE, "none", 4, TRUE, TRUE,
              <<"S">>, <<"\\mathcal{S}">>, <<"Subset S">>, <<"\\mathcal{S}">>, {0}),
       \* 4: manifold N (the codomain of the maps), closed
       Target(FALSE, TRUE, "none", TRUE, "none", 4, TRUE, TRUE,
              <<"N">>, <<"\\mathcal{N}">>, <<"Manifold N">>, <<"\\mathcal{N}">>, {0, 1, 2}),
       \* 5: a set without closure() and without names
       Target(FALSE, FALSE, "none", FALSE, "none", 5, FALSE, FALSE,
              <<>>, <<>>, <<"{3}">>, <<"\\{3\\}">>, {3}),
       \* 6: a set whose closure() exists and raises AttributeError inside
       Target(FALSE, FALSE, "none", TRUE, "AttributeError", 6, TRUE, TRUE,
              <<"A">>, <<"\\alpha">>, <<"Subset A">>, <<"\\alpha">>, {1}),
       \* 7: a set whose closure() raises ValueError; has _name, no _latex_name
       Target(FALSE, FALSE, "none", TRUE, "ValueError", 7, TRUE, FALSE,
              <<"V">>, <<>>, <<"Set V">>, <<"\\mathrm{V}">>, {2}),
       \* 8: a set whose closure() returns a set not reporting is_closed()
       Target(FALSE, FALSE, "none", TRUE, "none", 3, TRUE, TRUE,
              <<"W">>, <<"\\omega">>, <<"Subset W">>, <<"\\omega">>, {}),
       \* 9: a set whose is_closed() raises
       Target(FALSE, FALSE, "TypeError", TRUE, "none", 4, FALSE, TRUE,
              <<>>, <<"\\tau">>, <<"Set T">>, <<"\\mathrm{T}">>, {0, 3})
    >>

TargetIds == 1 .. Len(Targets)

(***************************************************************************)
(* Maps.  A map object lives in the heap `maps`; it has _name and          *)
(* _latex_name, a codomain, a mutability state ("mutable", "immutable", or *)
(* "none" when it has no is_mutable method) and the function it currently  *)
(* computes (an index into FnTable).                                       *)
(***************************************************************************)
Points == 0 .. 2

\* value raised instead of returned when the map cannot be evaluated
EvalError == 0 - 1

FnTable ==
    << [p \in Points |-> CASE p = 0 -> 1 [] p = 1 -> 2 [] OTHER -> EvalError],
       [p \in Points |-> CASE p = 0 -> 0 [] p = 1 -> 3 [] OTHER -> 2] >>

MapObj(nm, ltx, prot, fn, cod, copyOf) ==
    [name |-> nm, latex_name |-> ltx, prot |-> prot, fn |-> fn,
     codomain |-> cod, copyOf |-> copyOf]

\* the maps owned by the caller
CallerMaps ==
    << MapObj(None, None, "mutable", 1, 2, NoRef),
       MapObj(Str(<<"phi">>), Str(<<"\\phi">>), "immutable", 2, 4, NoRef),
       MapObj(Str(<<"g">>), None, "none", 1, 4, NoRef) >>

CallerMapIds == 1 .. Len(CallerMaps)

\* names the caller may pass
NameArgs == {None, Str(<<"U">>)}

LatexArgs == {None, Str(<<"\\mathcal{U}">>)}

(***************************************************************************)
(* __classcall_private__: normalisation of map and inverse.                *)
(***************************************************************************)
\* variant of Immutabilize: set_immutable() on the caller's object, no copy
Immutabilize_in_place(heap, x) ==
    IF x = NoRef \/ heap[x].prot = "none"
    THEN [heap |-> heap, ref |-> x]
    ELSE IF heap[x].prot = "mutable"
         THEN [heap |-> [heap EXCEPT ![x].prot = "immutable"], ref |-> x]
         ELSE [heap |-> heap, ref |-> x]

\* one try/except/else block: the argument x becomes an immutable copy
\* when x.is_mutable() answers True; None and objects without is_mutable
\* raise AttributeError, which is passed over
Immutabilize(heap, x) ==
    IF x = NoRef \/ heap[x].prot = "none"
    THEN [heap |-> heap, ref |-> x]
    ELSE IF heap[x].prot = "mutable"
         THEN [heap |-> Append(heap, [heap[x] EXCEPT !.prot = "immutable", !.copyOf = x]),
               ref |-> Len(heap) + 1]
         ELSE [heap |-> heap, ref |-> x]

classcall_private(heap, map, inverse) ==
    LET a == Immutabilize(heap, map)
        b == Immutabilize(a.heap, inverse)
    IN [heap |-> b.heap, map |-> a.ref, inverse |-> b.ref]

(***************************************************************************)
(* __init__: the fields of the new subset.                                 *)
(***************************************************************************)
\* variant of init: the name of the codomain subset is taken from _name
\* alone, without looking for _latex_name first
init_name_only(heap, map, inverse, codomain_subset, name, latex_name) ==
    LET cs == IF codomain_subset = NoRef THEN heap[map].codomain ELSE codomain_subset
        map_name == OrElse(heap[map].name, <<"f">>)
        map_latex_name == OrElse(heap[map].latex_name, map_name)
        codomain_subset_latex_name ==
            IF Targets[cs].hasLatexName THEN Targets[cs].latex_name ELSE Targets[cs].latex
        codomain_subset_name ==
            IF Targets[cs].hasName THEN Targets[cs].name ELSE Targets[cs].repr
        latex1 == IF latex_name.isNone
                  THEN IF name.isNone
                       THEN map_latex_name \o <<"^{-1}(">> \o codomain_subset_latex_name \o <<")">>
                       ELSE name.str
                  ELSE latex_name.str
        name1 == IF name.isNone
                 THEN map_name \o <<"_inv_">> \o codomain_subset_name
                 ELSE name.str
    IN [map |-> map, inverse |-> inverse, codomain_subset |-> cs,
        name |-> name1, latex_name |-> latex1]

\* variant of init: the derived latex_name is built on the map's _name
init_map_name_latex(heap, map, inverse, codomain_subset, name, latex_name) ==
    LET cs == IF codomain_subset = NoRef THEN heap[map].codomain ELSE codomain_subset
        map_name == OrElse(heap[map].name, <<"f">>)
        named == Targets[cs].hasLatexName /\ Targets[cs].hasName
        codomain_subset_latex_name == IF named THEN Targets[cs].latex_name ELSE Targets[cs].latex
        codomain_subset_name == IF named THEN Targets[cs].name ELSE Targets[cs].repr
        latex1 == IF latex_name.isNone
                  THEN IF name.isNone
                       THEN map_name \o <<"^{-1}(">> \o codomain_subset_latex_name \o <<")">>
                       ELSE name.str
                  ELSE latex_name.str
        name1 == IF name.isNone
                 THEN map_name \o <<"_inv_">> \o codomain_subset_name
                 ELSE name.str
    IN [map |-> map, inverse |-> inverse, codomain_subset |-> cs,
        name |-> name1, latex_name |-> latex1]

init(heap, map, inverse, codomain_subset, name, latex_name) ==
    LET cs == IF codomain_subset = NoRef THEN heap[map].codomain ELSE codomain_subset
        map_name == OrElse(heap[map].name, <<"f">>)
        map_latex_name == OrElse(heap[map].latex_name, map_name)
        named == Targets[cs].hasLatexName /\ Targets[cs].hasName
        codomain_subset_latex_name == IF named THEN Targets[cs].latex_name ELSE Targets[cs].latex
        codomain_subset_name == IF named THEN Targets[cs].name ELSE Targets[cs].repr
        latex1 == IF latex_name.isNone
                  THEN IF name.isNone
                       THEN map_latex_name \o <<"^{-1}(">> \o codomain_subset_latex_name \o <<")">>
                       ELSE name.str
                  ELSE latex_name.str
        name1 == IF name.isNone
                 THEN map_name \o <<"_inv_">> \o codomain_subset_name
                 ELSE name.str
    IN [map |-> map, inverse |-> inverse, codomain_subset |-> cs,
        name |-> name1, latex_name |-> latex1]

(***************************************************************************)
(* ManifoldSubsetPullback(map, inverse, codomain_subset, name, latex_name): *)
(* __classcall_private__ followed by the creation of the instance and      *)
(* __init__.  Besides its fields the new object records the arguments of   *)
(* the call and the subset whose closure() made it (NoRef for a call of    *)
(* the caller).                                                            *)
(***************************************************************************)
\* super().__classcall__: a new instance, initialised by __init__
classcall(heap, os, map, inverse, codomain_subset, name, latex_name) ==
    Append(os, init(heap, map, inverse, codomain_subset, name, latex_name))

ProtOf(heap, x) == IF x = NoRef THEN "none" ELSE heap[x].prot

ManifoldSubsetPullback(heap, os, map, inverse, codomain_subset, name, latex_name, from) ==
    LET n == classcall_private(heap, map, inverse)
        os1 == classcall(n.heap, os, n.map, n.inverse, codomain_subset, name, latex_name)
        id == Len(os1)
        args == [map |-> map, inverse |-> inverse,
                 mapProt |-> ProtOf(heap, map), inverseProt |-> ProtOf(heap, inverse),
                 codomain_subset |-> codomain_subset,
                 name |-> name, latex_name |-> latex_name, from |-> from]
    IN [heap |-> n.heap, id |-> id,
        objs |-> [os1 EXCEPT ![id] = [f \in DOMAIN os1[id] \cup {"args"} |->
                                         IF f = "args" THEN args ELSE os1[id][f]]]]

(***************************************************************************)
(* The base class ManifoldSubset.                                          *)
(***************************************************************************)
\* self.declare_superset(subset): subset is recorded as a subset of self;
\* the relation holds the pairs <<subset, superset>>
declare_superset(rel, self, subset) == rel \cup {<<subset, self>>}

(***************************************************************************)
(* The methods.  A call returns a record: ret is what is returned          *)
(* ("raise" when an exception leaves the method, and then err names it).   *)
(***************************************************************************)
Return(r) == [ret |-> r, err |-> "none"]

Raise(e) == [ret |-> "raise", err |-> e]

Bool(b) == IF b THEN "True" ELSE "False"

\* variant of contains: the answer of the base class is not looked at
contains_no_shortcut(heap, o, point, baseKnown) ==
    LET v == FnTable[heap[o.map].fn][point]
    IN IF v = EvalError
       THEN Raise("ValueError")
       ELSE Return(Bool(v \in Targets[o.codomain_subset].members))

\* __contains__; baseKnown is the answer of super().__contains__(point)
contains(heap, o, point, baseKnown) ==
    IF baseKnown
    THEN Return("True")
    ELSE LET v == FnTable[heap[o.map].fn][point]
         IN IF v = EvalError
            THEN Raise("ValueError")
            ELSE Return(Bool(v \in Targets[o.codomain_subset].members))

\* variant of is_closed: the RealSet test comes first
is_closed_real_first(o, baseAns) ==
    LET cs == Targets[o.codomain_subset]
    IN IF cs.isReal THEN Return("False")
       ELSE IF cs.closedErr # "none" THEN Raise(cs.closedErr)
       ELSE IF cs.closed THEN Return("True")
       ELSE Return(Bool(baseAns))

\* variant of is_closed: a closed codomain subset is not recognised unless
\* the base class answers True
is_closed_base_only(o, baseAns) ==
    LET cs == Targets[o.codomain_subset]
    IN IF cs.closedErr # "none" THEN Raise(cs.closedErr)
       ELSE IF cs.isReal THEN Return(Bool(cs.closed))
       ELSE Return(Bool(baseAns))

\* is_closed; baseAns is the answer of super().is_closed()
is_closed(o, baseAns) ==
    LET cs == Targets[o.codomain_subset]
    IN IF cs.closedErr # "none" THEN Raise(cs.closedErr)
       ELSE IF cs.closed THEN Return("True")
       ELSE IF cs.isReal THEN Return("False")
       ELSE Return(Bool(baseAns))

\* does is_closed reach super().is_closed()
ConsultsBase(o) ==
    LET cs == Targets[o.codomain_subset]
    IN cs.closedErr = "none" /\ ~cs.closed /\ ~cs.isReal

\* the answers super().is_closed() can give where is_closed asks for it
BaseAnswers(o) == IF ConsultsBase(o) THEN BOOLEAN ELSE {FALSE}

\* the try/except of closure: what self._codomain_subset.closure() gives.
\* A missing closure method and an AttributeError raised inside an existing
\* one are both caught by `except AttributeError`.
TryTargetClosure(cs) ==
    IF ~Targets[cs].hasClosure THEN "fallback"
    ELSE IF Targets[cs].closureErr = "AttributeError" THEN "fallback"
    ELSE IF Targets[cs].closureErr # "none" THEN "raise"
    ELSE "ok"

\* variant of closure_path: no early return of self
closure_path_no_return(c, cs) ==
    IF c.ret = "raise" THEN "raise_is_closed"
    ELSE TryTargetClosure(cs)

\* the branch closure() takes, from the answer c of self.is_closed()
closure_path(c, cs) ==
    IF c.ret = "raise" THEN "raise_is_closed"
    ELSE IF c.ret = "True" THEN "self"
    ELSE TryTargetClosure(cs)

\* variant of ClosureDeclare: self.declare_superset(closure)
ClosureDeclare_swapped(rel, closure, self) == declare_superset(rel, self, closure)

\* the registration made by closure(): closure.declare_superset(self)
ClosureDeclare(rel, closure, self) == declare_superset(rel, closure, self)

\* variant of ClosureTarget: the codomain subset itself is handed on
ClosureTarget_same(cs) == cs

\* the codomain subset handed to the new pullback by closure()
ClosureTarget(cs) == Targets[cs].closure

NoCall ==
    [op |-> "none", self |-> NoRef, point |-> 0, base |-> FALSE,
     name |-> None, latex_name |-> None, closed |-> "n/a",
     ret |-> "none", err |-> "none", obj |-> NoRef, tclosure |-> FALSE]

ObjIds == 1 .. Len(objs)

NCtor == Cardinality({i \in ObjIds : objs[i].args.from = NoRef})

Init ==
    /\ maps = CallerMaps
    /\ objs = <<>>
    /\ supersets = {}
    /\ last = NoCall

\* a call ManifoldSubsetPullback(m, inv, cs, name=nm, latex_name=ltx) by the
\* caller, with the optional arguments drawn from the given sets
ConstructWith(MapArgs, Subsets, Names, LatexNames) ==
    /\ NCtor < MaxCtor
    /\ Len(objs) < MaxObjs
    /\ \E mi \in MapArgs, cs \in Subsets, nm \in Names, ltx \in LatexNames :
          LET r == ManifoldSubsetPullback(maps, objs, mi[1], mi[2], cs, nm, ltx, NoRef)
          IN /\ maps' = r.heap
             /\ objs' = r.objs
             /\ last' = [NoCall EXCEPT !.op = "construct", !.self = r.id, !.obj = r.id,
                                       !.name = nm, !.latex_name = ltx, !.ret = "new"]
    /\ UNCHANGED supersets

\* the caller constructs a pullback and leaves the names to be derived: of
\* its mutable map without an inverse, or of its immutable map with the
\* mutable one as inverse
Construct == ConstructWith({<<1, NoRef>>, <<2, 1>>}, TargetIds, {None}, {None})

\* the caller constructs a pullback with any of the optional arguments
ConstructNamed ==
    ConstructWith(CallerMapIds \X (CallerMapIds \cup {NoRef}), TargetIds \cup {NoRef},
                  NameArgs, LatexArgs)

\* point in self
Contains ==
    /\ \E i \in ObjIds, p \in Points, b \in BOOLEAN :
          LET r == contains(maps, objs[i], p, b)
          IN last' = [NoCall EXCEPT !.op = "contains", !.self = i, !.point = p,
                                    !.base = b, !.ret = r.ret, !.err = r.err]
    /\ UNCHANGED <<maps, objs, supersets>>

\* self.is_closed()
IsClosed ==
    /\ \E i \in ObjIds : \E b \in BaseAnswers(objs[i]) :
          LET r == is_closed(objs[i], b)
          IN last' = [NoCall EXCEPT !.op = "is_closed", !.self = i,
                                    !.base = b,
                                    !.closed = r.ret, !.ret = r.ret, !.err = r.err]
    /\ UNCHANGED <<maps, objs, supersets>>

\* self.closure(name, latex_name)
Closure ==
    \E i \in ObjIds, nm \in NameArgs, ltx \in LatexArgs : \E b \in BaseAnswers(objs[i]) :
       LET o == objs[i]
           c == is_closed(o, b)
           call == [NoCall EXCEPT !.op = "closure", !.self = i,
                                  !.base = b,
                                  !.name = nm, !.latex_name = ltx, !.closed = c.ret]
           path == closure_path(c, o.codomain_subset)
       IN CASE path = "raise_is_closed" ->
                 /\ last' = [call EXCEPT !.ret = "raise", !.err = c.err]
                 /\ UNCHANGED <<maps, objs, supersets>>
            [] path = "self" ->
                 /\ last' = [call EXCEPT !.ret = "self", !.obj = i]
                 /\ UNCHANGED <<maps, objs, supersets>>
            [] path = "fallback" ->
                 \* return super().closure()
                 /\ last' = [call EXCEPT !.ret = "base_closure",
                                         !.tclosure = Targets[o.codomain_subset].hasClosure]
                 /\ UNCHANGED <<maps, objs, supersets>>
            [] path = "raise" ->
                 /\ last' = [call EXCEPT !.ret = "raise", !.tclosure = TRUE,
                                         !.err = Targets[o.codomain_subset].closureErr]
                 /\ UNCHANGED <<maps, objs, supersets>>
            [] path = "ok" ->
                 /\ Len(objs) < MaxObjs
                 /\ LET r == ManifoldSubsetPullback(maps, objs, o.map, o.inverse,
                                                    ClosureTarget(o.codomain_subset), nm, ltx, i)
                    IN /\ maps' = r.heap
                       /\ objs' = r.objs
                       /\ supersets' = ClosureDeclare(supersets, r.id, i)
                       /\ last' = [call EXCEPT !.ret = "new", !.obj = r.id, !.tclosure = TRUE]

\* the caller changes one of its mutable maps
CallerMutate ==
    /\ \E m \in 1 .. Len(maps) :
          /\ maps[m].prot = "mutable"
          /\ maps' = [maps EXCEPT ![m].fn = 3 - maps[m].fn]
    /\ UNCHANGED <<objs, supersets, last>>

Next == Construct \/ Contains \/ IsClosed \/ Closure

Spec == Init /\ [][Next]_vars

\* construction alone, with every combination of the arguments
NextCtor == ConstructNamed \/ CallerMutate

SpecCtor == Init /\ [][NextCtor]_vars

(***************************************************************************)
(* Properties.                                                             *)
(***************************************************************************)
\* the codomain subset of pullback i
TargetOf(i) == Targets[objs[i].codomain_subset]

\* the value of the map of pullback i at point p
ImageOf(i, p) == FnTable[maps[objs[i].map].fn][p]

\* C1: a call `point in self` for which the base class does not report the
\* point returns True exactly when the value of the map at the point lies
\* in the codomain subset; when the base class reports the point, the call
\* returns True whatever the map and the codomain subset say.
C1_ContainsIffImageInTarget ==
    last.op = "contains" =>
        IF last.base
        THEN last.ret = "True"
        ELSE /\ last.ret = "raise" <=> ImageOf(last.self, last.point) = EvalError
             /\ last.ret = "True" <=>
                    ImageOf(last.self, last.point) \in TargetOf(last.self).members
             /\ last.ret \in {"True", "False", "raise"}

C1_Witness ==
    /\ last.op = "contains"
    /\ ~last.base
    /\ last.ret = "True"
    /\ ImageOf(last.self, last.point) \in TargetOf(last.self).members

\* C2: is_closed() returns True when the codomain subset reports closed;
\* otherwise False when the codomain subset is a RealSet; otherwise the
\* answer of the base class.
C2_IsClosedThreeTiers ==
    (last.op = "is_closed" /\ TargetOf(last.self).closedErr = "none") =>
        LET cs == TargetOf(last.self)
        IN /\ cs.closed => last.ret = "True"
           /\ (~cs.closed /\ cs.isReal) => last.ret = "False"
           /\ (~cs.closed /\ ~cs.isReal) => last.ret = Bool(last.base)

C2_Witness ==
    /\ last.op = "is_closed"
    /\ last.ret = "False"
    /\ TargetOf(last.self).isReal
    /\ ~TargetOf(last.self).closed

\* C3: when closure() returns a new pullback, the original is registered as
\* a subset of the new pullback and the new pullback is not registered as a
\* subset of the original.
C3_OriginalSubsetOfClosure ==
    /\ \A i \in ObjIds :
          objs[i].args.from # NoRef =>
              /\ <<objs[i].args.from, i>> \in supersets
              /\ <<i, objs[i].args.from>> \notin supersets
    /\ (last.op = "closure" /\ last.ret = "new") =>
          /\ <<last.self, last.obj>> \in supersets
          /\ <<last.obj, last.self>> \notin supersets

C3_Witness ==
    /\ last.op = "closure"
    /\ last.ret = "new"
    /\ last.closed = "False"
    /\ <<last.self, last.obj>> \in supersets

\* C4: when closure() is called on a pullback that is not closed and whose
\* codomain subset gives a closure, the result is another pullback with the
\* same map and inverse, over the closure of the codomain subset, and it is
\* constructed with the name and latex_name passed to closure().
C4_ClosureIsPullbackOfClosure ==
    /\ \A i \in ObjIds :
          objs[i].args.from # NoRef =>
              LET orig == objs[objs[i].args.from]
              IN /\ i # objs[i].args.from
                 /\ objs[i].map = orig.map
                 /\ objs[i].inverse = orig.inverse
                 /\ objs[i].codomain_subset = Targets[orig.codomain_subset].closure
    /\ (last.op = "closure" /\ last.closed = "False"
           /\ TargetOf(last.self).hasClosure /\ TargetOf(last.self).closureErr = "none") =>
          /\ last.ret = "new"
          /\ last.obj # last.self
          /\ objs[last.obj].args.from = last.self
          /\ objs[last.obj].args.name = last.name
          /\ objs[last.obj].args.latex_name = last.latex_name
          /\ ~last.name.isNone => objs[last.obj].name = last.name.str
          /\ ~last.latex_name.isNone => objs[last.obj].latex_name = last.latex_name.str

C4_Witness ==
    /\ last.op = "closure"
    /\ last.ret = "new"
    /\ ~last.name.isNone
    /\ ~last.latex_name.isNone
    /\ objs[last.obj].inverse # NoRef
    /\ objs[last.obj].codomain_subset # objs[last.self].codomain_subset

\* C5: a call of closure() in which is_closed() holds returns self, whatever
\* name and latex_name are passed; it constructs no subset, does not ask the
\* codomain subset for its closure and declares no superset.
C5_ClosureOfClosedIsSelf ==
    [][(last' # last /\ last'.op = "closure" /\ last'.closed = "True") =>
          /\ last'.ret = "self"
          /\ last'.obj = last'.self
          /\ ~last'.tclosure
          /\ objs' = objs
          /\ supersets' = supersets
          /\ maps' = maps]_vars

C5_Witness ==
    /\ last.op = "closure"
    /\ last.closed = "True"
    /\ last.ret = "self"
    /\ ~last.name.isNone
    /\ ~last.latex_name.isNone

\* C9: closure() returns the closure of the base class only when the
\* codomain subset has no closure method, and an exception raised by a
\* collaborator during contains, is_closed or closure (one raised inside an
\* existing closure method of the codomain subset included) leaves the
\* method as it was raised.
C9_FailuresPropagate ==
    /\ (last.op = "closure" /\ last.ret = "base_closure") =>
          ~TargetOf(last.self).hasClosure
    /\ (last.op = "closure" /\ last.tclosure /\ TargetOf(last.self).closureErr # "none") =>
          (last.ret = "raise" /\ last.err = TargetOf(last.self).closureErr)
    /\ (last.op \in {"is_closed", "closure"} /\ TargetOf(last.self).closedErr # "none") =>
          (last.ret = "raise" /\ last.err = TargetOf(last.self).closedErr)
    /\ (last.op = "contains" /\ ~last.base
           /\ ImageOf(last.self, last.point) = EvalError) =>
          last.ret = "raise"

\* the codomain subset of pullback i reports closed
ReportsClosed(i) == TargetOf(i).closedErr = "none" /\ TargetOf(i).closed

\* C10: a pullback C returned as new by closure(), over a codomain subset
\* that reports closed, is closed and is its own closure: is_closed() on C
\* is True, closure() on C returns C, and no pullback is made from C.
C10_ClosureIdempotent ==
    \A c \in ObjIds :
       (objs[c].args.from # NoRef /\ ReportsClosed(c)) =>
           /\ \A d \in ObjIds : objs[d].args.from # c
           /\ (last.op = "is_closed" /\ last.self = c) => last.ret = "True"
           /\ (last.op = "closure" /\ last.self = c) =>
                  (last.ret = "self" /\ last.obj = c)

C10_Witness ==
    /\ last.op = "closure"
    /\ objs[last.self].args.from # NoRef
    /\ ReportsClosed(last.self)
    /\ last.ret = "self"
    /\ last.obj = last.self

\* the map object the caller passed when pullback i was constructed
ArgMapOf(i) == maps[objs[i].args.map]

\* the name and latex name of a codomain subset: its _name and _latex_name
\* when it has both attributes, else its repr and latex
TargetName(cs) ==
    IF Targets[cs].hasName /\ Targets[cs].hasLatexName
    THEN Targets[cs].name ELSE Targets[cs].repr

TargetLatex(cs) ==
    IF Targets[cs].hasName /\ Targets[cs].hasLatexName
    THEN Targets[cs].latex_name ELSE Targets[cs].latex

\* the name of a map, 'f' when it is not set
MapName(m) == IF m.name.isNone THEN <<"f">> ELSE m.name.str

\* C6: a pullback constructed without a name is named
\* mapName + "_inv_" + targetName, and a pullback constructed without a
\* codomain subset is over the codomain of the map.
C6_DerivedName ==
    \A i \in ObjIds :
       /\ objs[i].args.name.isNone =>
             objs[i].name = MapName(ArgMapOf(i)) \o <<"_inv_">>
                               \o TargetName(objs[i].codomain_subset)
       /\ objs[i].codomain_subset =
             IF objs[i].args.codomain_subset = NoRef
             THEN ArgMapOf(i).codomain
             ELSE objs[i].args.codomain_subset

C6_Witness ==
    \E i \in ObjIds :
       /\ objs[i].args.name.isNone
       /\ objs[i].args.codomain_subset = NoRef
       /\ ArgMapOf(i).name.isNone
       /\ objs[i].name = <<"f", "_inv_", "[1, +oo)">>

\* C7, as claimed: a pullback constructed without a latex_name has, when
\* the name is absent too, the latex name mapName^{-1}(targetLatex) built
\* on the name of the map, also for a map whose latex name differs from its
\* name; when the name is given, the latex name is that name.
C7_LatexFromMapName ==
    \A i \in ObjIds :
       objs[i].args.latex_name.isNone =>
           IF objs[i].args.name.isNone
           THEN objs[i].latex_name = MapName(ArgMapOf(i)) \o <<"^{-1}(">>
                                        \o TargetLatex(objs[i].codomain_subset) \o <<")">>
           ELSE objs[i].latex_name = objs[i].args.name.str

\* the latex name of a map, its name (or 'f') when it is not set
MapLatexName(m) == IF m.latex_name.isNone THEN MapName(m) ELSE m.latex_name.str

\* C7, amended: the derived latex name is built on the latex name of the
\* map, which is the name of the map (or 'f') only when the map has no
\* latex name; when the name is given, the latex name is that name.
C7_LatexFromMapLatexName ==
    \A i \in ObjIds :
       objs[i].args.latex_name.isNone =>
           IF objs[i].args.name.isNone
           THEN objs[i].latex_name = MapLatexName(ArgMapOf(i)) \o <<"^{-1}(">>
                                        \o TargetLatex(objs[i].codomain_subset) \o <<")">>
           ELSE objs[i].latex_name = objs[i].args.name.str

C7_Witness ==
    \E i \in ObjIds :
       /\ objs[i].args.latex_name.isNone
       /\ objs[i].args.name.isNone
       /\ MapLatexName(ArgMapOf(i)) # MapName(ArgMapOf(i))
       /\ objs[i].latex_name = <<"\\phi", "^{-1}(", "\\mathcal{S}", ")">>

\* what a pullback holds for an argument arg that had mutability state prot
\* when it was passed: an immutable copy of a mutable argument, which stays
\* mutable itself; the argument itself otherwise
HoldsImmutable(heap, held, arg, prot) ==
    /\ ProtOf(heap, held) # "mutable"
    /\ IF prot = "mutable"
       THEN /\ held # arg
            /\ heap[held].prot = "immutable"
            /\ heap[held].copyOf = arg
            /\ heap[arg].prot = "mutable"
       ELSE held = arg

\* C8: in every state the map and the inverse a constructed pullback holds
\* are immutable: an immutable copy when the caller's object was mutable,
\* the caller's object itself when it was immutable, had no mutability
\* protocol or was None.  The construction leaves the objects of the caller
\* as they were, the copy starts equal to the original, and what a pullback
\* holds never changes afterwards.
C8_HeldMapsImmutable ==
    [][/\ \A i \in 1 .. Len(objs') :
             /\ HoldsImmutable(maps', objs'[i].map, objs'[i].args.map, objs'[i].args.mapProt)
             /\ HoldsImmutable(maps', objs'[i].inverse, objs'[i].args.inverse,
                               objs'[i].args.inverseProt)
       /\ \A i \in ObjIds :
             /\ objs'[i] = objs[i]
             /\ maps'[objs[i].map] = maps[objs[i].map]
             /\ objs[i].inverse # NoRef => maps'[objs[i].inverse] = maps[objs[i].inverse]
       /\ Len(objs') > Len(objs) =>
             /\ \A k \in 1 .. Len(maps) : maps'[k] = maps[k]
             /\ \A k \in (Len(maps) + 1) .. Len(maps') :
                   maps'[k] = [maps[maps'[k].copyOf] EXCEPT !.prot = "immutable",
                                                            !.copyOf = maps'[k].copyOf]]_vars

C8_Witness ==
    \E i \in ObjIds :
       /\ objs[i].args.mapProt = "mutable"
       /\ objs[i].args.inverseProt = "immutable"
       /\ objs[i].map # objs[i].args.map
       /\ maps[objs[i].map].fn # ArgMapOf(i).fn

====
